---- MODULE Spec2Model ----
(***************************************************************************)
(* A model of pykokkos/core/translators/static.py: StaticTranslator, the   *)
(* orchestrator that turns one parsed PyKokkos entity (plus its classtypes)*)
(* into two lists of C++ fragments, the functor and the bindings.          *)
(*                                                                         *)
(* The translator's collaborators (PyKokkosMembers, SymbolsPass, the four  *)
(* visitors, generate_functor, bind_main, bind_workunits and the cppast    *)
(* Serializer) live in other files; they are modelled by what spec.md says *)
(* of them and are marked as such where they are defined.                  *)
(***************************************************************************)
EXTENDS Integers, Sequences, FiniteSets, TLC

\* ------------------------------------------------------------------ bounds

\* The largest number of declarations (mains + workunits + functions +
\* classtypes) of an entity given to a translator that is used once.
MaxDecls == 3

\* The same, for the entities given to a translator that is used repeatedly.
ReuseDecls == 1

\* ------------------------------------------------------------------ inputs

\* PyKokkosStyles (pykokkos.core.parsers): the styles of spec.md 3, and
\* that of a classtype entity.  generate_bindings singles out `workload`.
PyKokkosStyles == {"workload", "function_group", "classtype"}

\* What a body contains, as far as the validator and the visitors can tell:
\*   ok           only resolvable names and supported constructs
\*   ghost        a reference to a name that is declared nowhere
\*   callsF       a call of the helper function f1
\*   unsupported  a construct the workunit visitor raises on
MainKinds == {"ok", "ghost"}
WorkunitKinds == {"ok", "ghost", "callsF", "unsupported"}
FunctionKinds == {"ok", "ghost"}
\*   fields       a classtype with fields only
\*   method       a classtype with one method that has a body
\*   ghost        a classtype whose method references an undeclared name
ClasstypeKinds == {"fields", "method", "ghost"}

\* The name, import alias and path of the entities.
EntityHeads ==
    { [name |-> "A", pk_import |-> "pk", path |-> "a.py"],
      [name |-> "B", pk_import |-> "kokkos", path |-> "b.py"] }

\* The (module, functor) file names a translator is constructed with.
FileNames ==
    { [module |-> "kernel.so", functor |-> "functor.hpp"],
      [module |-> "other.so", functor |-> "other.hpp"] }

\* All sequences over S of length 0..n.
SeqsUpTo(S, n) == UNION { [1..k -> S] : k \in 0..n }

\* The declarations of one category: the i-th is named <<tag, i>>.
Decls(tag, kinds) ==
    [i \in 1..Len(kinds) |-> [name |-> <<tag, i>>, kind |-> kinds[i]]]

\* The declaration tables of the entities with at most n declarations.
BodiesUpTo(n) ==
    UNION { UNION { UNION {
        { [mains |-> Decls("m", m), workunits |-> Decls("w", w),
           functions |-> Decls("f", f), classtypes |-> Decls("c", c)] :
            c \in SeqsUpTo(ClasstypeKinds, n - Len(m) - Len(w) - Len(f)) } :
            f \in SeqsUpTo(FunctionKinds, n - Len(m) - Len(w)) } :
            w \in SeqsUpTo(WorkunitKinds, n - Len(m)) } :
            m \in SeqsUpTo(MainKinds, n) }

\* The arguments of one call of translate: a PyKokkosEntity and the list of
\* its classtype entities.  `linked` records whether add_parent_refs has
\* set the parent references of the AST.
CallsUpTo(n) ==
    { [entity |-> [name |-> h.name, pk_import |-> h.pk_import, path |-> h.path,
                   style |-> s, linked |-> FALSE,
                   mains |-> b.mains, workunits |-> b.workunits,
                   functions |-> b.functions],
       classtypes |-> [i \in 1..Len(b.classtypes) |->
                         [name |-> b.classtypes[i].name,
                          kind |-> b.classtypes[i].kind,
                          linked |-> FALSE]]] :
        h \in EntityHeads, s \in PyKokkosStyles, b \in BodiesUpTo(n) }

Calls == CallsUpTo(MaxDecls)
ReuseCalls == CallsUpTo(ReuseDecls)

\* ------------------------------------------------------------------ dicts

\* A Python dict, in insertion order: a sequence of [key, val] entries.
HasKey(d, k) == \E i \in 1..Len(d) : d[i].key = k

\* d[k] = v: an existing key keeps its position, a new one goes last.
DictSet(d, k, v) ==
    IF HasKey(d, k)
    THEN [i \in 1..Len(d) |-> IF d[i].key = k THEN [key |-> k, val |-> v] ELSE d[i]]
    ELSE Append(d, [key |-> k, val |-> v])

\* d.values()
Values(d) == [i \in 1..Len(d) |-> d[i].val]

\* d.keys()
Keys(d) == [i \in 1..Len(d) |-> d[i].key]

\* The dict after storing each declaration of `decls` under its name.
RECURSIVE DictPutAll(_, _)
DictPutAll(d, decls) ==
    IF decls = <<>> THEN d
    ELSE DictPutAll(DictSet(d, Head(decls).name, Head(decls)), Tail(decls))

\* -------------------------------------------------- collaborators (spec.md)

\* PyKokkosMembers(): the symbol tables, empty.  `bound` tells an object
\* from the attribute that __init__ only annotates and never assigns.
PyKokkosMembers ==
    [bound |-> TRUE, pk_mains |-> <<>>, pk_workunits |-> <<>>,
     pk_functions |-> <<>>, classtype_methods |-> <<>>]

\* self.pk_members and self.pk_import before the first call of translate.
Unassigned == [PyKokkosMembers EXCEPT !.bound = FALSE]
NoImport == "<unassigned>"

\* The methods a classtype declares.
MethodsOf(c) ==
    IF c.kind = "fields" THEN <<>>
    ELSE << [name |-> <<"method", c.name[2]>>, body |-> c.kind] >>

\* PyKokkosMembers.extract(entity, classtypes): every declaration goes to
\* the table of its category, under its name (spec.md 4.2).
extract(members, entity, classtypes) ==
    [members EXCEPT
        !.pk_mains = DictPutAll(@, entity.mains),
        !.pk_workunits = DictPutAll(@, entity.workunits),
        !.pk_functions = DictPutAll(@, entity.functions),
        !.classtype_methods =
            DictPutAll(@, [i \in 1..Len(classtypes) |->
                             [name |-> classtypes[i].name,
                              methods |-> MethodsOf(classtypes[i])]])]

\* SymbolsPass(pk_members, pk_import, path)
SymbolsPass(members, import, path) ==
    [members |-> members, pk_import |-> import, path |-> path]

\* SymbolsPass.check_symbols(AST): one diagnostic for each name of the body
\* that resolves against no table (spec.md 4.3); it never raises.
symbols_check(pass, ast) ==
    IF ast.kind = "ghost"
    THEN << [where |-> ast.name, ident |-> "ghost", path |-> pass.path] >>
    ELSE IF ast.kind = "callsF" /\ ~HasKey(pass.members.pk_functions, <<"f", 1>>)
    THEN << [where |-> ast.name, ident |-> "f1", path |-> pass.path] >>
    ELSE <<>>

\* The tables and the alias a visitor, the assembler or a binder is given:
\* whatever it produces may depend on them.
Scope(members, import) ==
    [mains |-> Keys(members.pk_mains),
     workunits |-> Keys(members.pk_workunits),
     functions |-> Keys(members.pk_functions),
     classtype_methods |-> Keys(members.classtype_methods),
     pk_import |-> import]

\* ClasstypeVisitor(...).visit(classdef): the cppast.RecordDecl of a
\* classtype, a full definition (spec.md 4.4).
visit_classtype(scope, c) ==
    [name |-> c.name, is_definition |-> TRUE, methods |-> MethodsOf(c),
     operators |-> <<>>, scope |-> scope]

\* KokkosFunctionVisitor(...).visit(functiondef): a cppast.MethodDecl.
visit_function(scope, f) ==
    [name |-> f.name, body |-> f.kind, scope |-> scope]

\* WorkunitVisitor(...).visit(w) raises on a body it cannot translate ...
visit_raises(w) == w.kind = "unsupported"

\* ... and otherwise returns the pair (operator tag, cppast.MethodDecl).
visit_workunit(scope, w) ==
    [tag |-> "plain",
     method |-> [name |-> w.name, body |-> w.kind, scope |-> scope]]

\* generate_functor(name, pk_members, workunits, functions): the assembled
\* record, with the helper methods and one call operator per workunit
\* (spec.md 4.5).
generate_functor(name, members, workunits, functions) ==
    [name |-> name, is_definition |-> TRUE, methods |-> functions,
     operators |-> workunits, scope |-> Scope(members, "")]

\* bind_main(functor_name, pk_members, source, pk_import, module_file):
\* a single registration entry (spec.md 4.6, workload mode).
bind_main(functor_name, members, import, module) ==
    << [binder |-> "bind_main", functor |-> functor_name, module |-> module,
        entry |-> <<"run", 0>>, scope |-> Scope(members, import)] >>

\* bind_workunits(functor_name, pk_members, workunits, module_file): one
\* registration entry per workunit (spec.md 4.6, function-group mode).
bind_workunits(functor_name, members, workunits, module) ==
    [i \in 1..Len(workunits) |->
        [binder |-> "bind_workunits", functor |-> functor_name,
         module |-> module, entry |-> workunits[i].key,
         scope |-> Scope(members, "")]]

\* A record without the bodies of its methods.
WithoutBodies(node) ==
    [node EXCEPT !.methods =
        [j \in 1..Len(node.methods) |-> [node.methods[j] EXCEPT !.body = "<omitted>"]]]

\* cppast.Serializer().serialize(node): the text of a record; a record
\* that is not a definition is rendered as its forward declaration, which
\* has no member bodies (spec.md 3 and 6).
serialize(node) ==
    IF node.is_definition
    THEN [text |-> "definition", of |-> node]
    ELSE [text |-> "declaration", of |-> WithoutBodies(node)]

\* sys.exit(*args): the exit status of the process is 0 when no argument
\* (None) is given, the argument otherwise.
sys_exit(args) == [exited |-> TRUE, code |-> IF args = <<>> THEN 0 ELSE args[1]]
Running == [exited |-> FALSE, code |-> 0]

\* ------------------------------------------------------ StaticTranslator

\* translate with the workunits translated before the helper functions.
translate_sequence_swapped ==
    << "add_parent_refs", "extract", "check_symbols", "translate_classtypes",
       "translate_workunits", "translate_functions", "generate_functor",
       "generate_bindings", "serialize" >>

\* The statements of translate, in the order in which it runs them.
translate_sequence ==
    << "add_parent_refs", "extract", "check_symbols", "translate_classtypes",
       "translate_functions", "translate_workunits", "generate_functor",
       "generate_bindings", "serialize" >>

\* The statement that follows `step` in translate; `return` after the last.
After(step) ==
    LET k == CHOOSE j \in 1..Len(translate_sequence) : translate_sequence[j] = step
    IN IF k = Len(translate_sequence) THEN "return" ELSE translate_sequence[k + 1]

\* add_parent_refs(classdef): every node gets a reference to its parent.
add_parent_refs(ast) == [ast EXCEPT !.linked = TRUE]

\* translate filling the tables the instance already holds.
members_for_run_kept(held_members) ==
    IF held_members.bound THEN held_members ELSE PyKokkosMembers

\* self.pk_members = PyKokkosMembers(): the tables extract fills are those
\* of a new object, whatever the instance held before.
members_for_run(held_members) == PyKokkosMembers

\* f"pk_functor_{entity.name.declname}"
functor_name(entity) == <<"pk_functor_", entity.name>>

\* check_symbols without its loop over the helper functions.
check_order_short(members, classtypes) ==
    Values(members.pk_mains) \o Values(members.pk_workunits) \o classtypes

\* The bodies check_symbols checks, in the order of its four loops.
check_order(members, classtypes) ==
    Values(members.pk_mains) \o Values(members.pk_workunits)
        \o Values(members.pk_functions) \o classtypes

\* check_symbols tolerating a single message.
has_errors_several(error_messages) == Len(error_messages) > 1

\* `if error_messages:`
has_errors(error_messages) == error_messages # <<>>

\* The argument tuple of the sys.exit call of check_symbols.
check_symbols_exit_args == <<>>

\* `declaration = definition`: a second reference to the same object.
deepcopy_alias(heap, ref) == [heap |-> heap, ref |-> ref]

\* copy.deepcopy(definition): a new object with the same contents.
deepcopy(heap, ref) == [heap |-> Append(heap, heap[ref]), ref |-> Len(heap) + 1]

\* `return definitions + declarations`
classtypes_result_swapped(declarations, definitions) == definitions \o declarations

\* `return declarations + definitions`
classtypes_result(declarations, definitions) == declarations \o definitions

\* An except clause that prints and lets the loop go on.
workunit_fault_continue(w) ==
    [line |-> [where |-> w.name, ident |-> "Translation failed", path |-> ""],
     exit |-> Running, pc |-> "translate_workunits"]

\* The except clause of translate_workunits: what is printed, how the
\* process ends, and where control goes.
workunit_fault(w) ==
    [line |-> [where |-> w.name, ident |-> "Translation failed", path |-> ""],
     exit |-> sys_exit(<<1>>), pc |-> "exited"]

\* generate_header()
generate_header == "// ******* AUTOMATICALLY GENERATED BY PyKokkos *******"

\* generate_includes with the functor file's name written out.
generate_includes_fixed(functor_file) ==
    [text |-> "includes",
     of |-> << "pybind11/pybind11.h", "Kokkos_Core.hpp", "Kokkos_Sort.hpp",
               "fstream", "iostream", "cmath", "functor.hpp" >>]

\* generate_includes(): the include lines, joined in this order.
generate_includes(functor_file) ==
    [text |-> "includes",
     of |-> << "pybind11/pybind11.h", "Kokkos_Core.hpp", "Kokkos_Sort.hpp",
               "fstream", "iostream", "cmath", functor_file >>]

\* generate_bindings taking every style but `function_group` for a workload.
binder_for_group_only(entity) ==
    IF entity.style = "function_group" THEN "bind_workunits" ELSE "bind_main"

\* The binder generate_bindings calls for an entity.
binder_for(entity) ==
    IF entity.style = "workload" THEN "bind_main" ELSE "bind_workunits"

\* functor = [header] + [serialize(c) for c in classtypes] + [serialize(struct)]
functor_artifact(header, records, struct) ==
    <<header>> \o [j \in 1..Len(records) |-> serialize(records[j])]
        \o <<serialize(struct)>>

\* bindings.insert(0, includes); bindings.insert(0, header)
bindings_artifact(header, includes, bindings) == <<header, includes>> \o bindings

\* ------------------------------------------------------------------ state

VARIABLES
    module_file, functor_file,  \* set by __init__
    pk_import, pk_members,      \* set by translate
    entity, classtypes,         \* the arguments of the running call
    pc, i,                      \* the statement translate is at; the loop index
    error_messages,             \* check_symbols
    heap,                       \* the cppast.RecordDecl objects of the classtypes
    declarations, definitions,  \* translate_classtypes: references into heap
    records,                    \* `classtypes` as rebound by translate
    functions,                  \* translate_functions
    workunits,                  \* translate_workunits
    struct, bindings,           \* generate_functor, generate_bindings
    result,                     \* what translate returned
    stdout, exit,               \* what was printed; how the process ended
    stages, calls, held         \* history: stages entered and left, calls made
                                \* of collaborators, what the instance held
                                \* when the running call began

inst == <<module_file, functor_file, pk_import, pk_members>>
args == <<entity, classtypes>>
ctvars == <<heap, declarations, definitions, records>>
outs == <<struct, bindings, result>>
proc == <<stdout, exit>>
vars == <<inst, args, pc, i, error_messages, ctvars, functions, workunits,
          outs, proc, stages, calls, held>>

NoResult == [returned |-> FALSE, functor |-> <<>>, bindings |-> <<>>]
NoStruct == [name |-> <<"", "">>, is_definition |-> FALSE, methods |-> <<>>,
             operators |-> <<>>, scope |-> Scope(Unassigned, "")]

Enter(stage) == <<"enter", stage>>
Leave(stage) == <<"leave", stage>>
Call(fn, arg) == [fn |-> fn, arg |-> arg]

\* The locals of a call of translate, before its first statement.
Entry(call) ==
    /\ entity = call.entity
    /\ classtypes = call.classtypes
    /\ pc = "translate"
    /\ i = 0
    /\ error_messages = <<>>
    /\ heap = <<>>
    /\ declarations = <<>>
    /\ definitions = <<>>
    /\ records = <<>>
    /\ functions = <<>>
    /\ workunits = <<>>
    /\ struct = NoStruct
    /\ bindings = <<>>
    /\ result = NoResult
    /\ stages = <<>>
    /\ calls = <<>>

\* StaticTranslator(module, functor), and a first call of translate about
\* to run.
InitWith(callset) ==
    /\ \E f \in FileNames : module_file = f.module /\ functor_file = f.functor
    /\ pk_import = NoImport
    /\ pk_members = Unassigned
    /\ held = [pk_members |-> Unassigned, pk_import |-> NoImport]
    /\ stdout = <<>>
    /\ exit = Running
    /\ \E call \in callset : Entry(call)

Init == InitWith(Calls)
InitReuse == InitWith(ReuseCalls)

\* ---------------------------------------------------------------- actions

\* translate, line 50.
translate_begin ==
    /\ pc = "translate"
    /\ pk_import' = entity.pk_import
    /\ pc' = Head(translate_sequence)
    /\ UNCHANGED <<module_file, functor_file, pk_members, args, i,
                   error_messages, ctvars, functions, workunits, outs, proc,
                   stages, calls, held>>

\* translate, line 52: the entity's AST.
link_entity ==
    /\ pc = "add_parent_refs" /\ i = 0
    /\ entity' = add_parent_refs(entity)
    /\ i' = 1
    /\ stages' = Append(stages, Enter("LinkParents"))
    /\ UNCHANGED <<inst, classtypes, pc, error_messages, ctvars, functions,
                   workunits, outs, proc, calls, held>>

\* translate, lines 53-54: one classtype's AST.
link_classtype ==
    /\ pc = "add_parent_refs" /\ i >= 1 /\ i <= Len(classtypes)
    /\ classtypes' = [classtypes EXCEPT ![i] = add_parent_refs(@)]
    /\ i' = i + 1
    /\ UNCHANGED <<inst, entity, pc, error_messages, ctvars, functions,
                   workunits, outs, proc, stages, calls, held>>

\* translate, lines 53-54: the loop is exhausted.
link_done ==
    /\ pc = "add_parent_refs" /\ i > Len(classtypes)
    /\ stages' = Append(stages, Leave("LinkParents"))
    /\ pc' = After("add_parent_refs")
    /\ i' = 0
    /\ UNCHANGED <<inst, args, error_messages, ctvars, functions,
                   workunits, outs, proc, calls, held>>

\* translate, lines 56-57.
extract_members ==
    /\ pc = "extract"
    /\ pk_members' = extract(members_for_run(pk_members), entity, classtypes)
    /\ stages' = stages \o <<Enter("ExtractMembers"), Leave("ExtractMembers")>>
    /\ calls' = Append(calls, Call("extract", <<entity.name, 0>>))
    /\ pc' = After("extract")
    /\ UNCHANGED <<module_file, functor_file, pk_import, args, i,
                   error_messages, ctvars, functions, workunits, outs, proc,
                   held>>

\* check_symbols, lines 107-109.
check_symbols_begin ==
    /\ pc = "check_symbols" /\ i = 0
    /\ error_messages' = <<>>
    /\ i' = 1
    /\ stages' = Append(stages, Enter("ValidateSymbols"))
    /\ UNCHANGED <<inst, args, pc, ctvars, functions, workunits, outs, proc,
                   calls, held>>

\* check_symbols, lines 110-117: one body is checked.
check_symbols_step ==
    /\ pc = "check_symbols" /\ i >= 1
    /\ i <= Len(check_order(pk_members, classtypes))
    /\ LET ast == check_order(pk_members, classtypes)[i]
           pass == SymbolsPass(pk_members, pk_import, entity.path)
       IN /\ error_messages' = error_messages \o symbols_check(pass, ast)
          /\ calls' = Append(calls, Call("check_symbols", ast.name))
    /\ i' = i + 1
    /\ UNCHANGED <<inst, args, pc, ctvars, functions, workunits, outs, proc,
                   stages, held>>

\* check_symbols, lines 119-123: the messages are printed and the process
\* exits.
check_symbols_fail ==
    /\ pc = "check_symbols" /\ i > Len(check_order(pk_members, classtypes))
    /\ has_errors(error_messages)
    /\ stdout' = stdout \o error_messages
    /\ exit' = sys_exit(check_symbols_exit_args)
    /\ pc' = "exited"
    /\ UNCHANGED <<inst, args, i, error_messages, ctvars, functions,
                   workunits, outs, stages, calls, held>>

\* check_symbols, line 119: no message, the method returns.
check_symbols_pass ==
    /\ pc = "check_symbols" /\ i > Len(check_order(pk_members, classtypes))
    /\ ~has_errors(error_messages)
    /\ stages' = Append(stages, Leave("ValidateSymbols"))
    /\ pc' = After("check_symbols")
    /\ i' = 0
    /\ UNCHANGED <<inst, args, error_messages, ctvars, functions, workunits,
                   outs, proc, calls, held>>

\* translate_classtypes, lines 134-135.
translate_classtypes_begin ==
    /\ pc = "translate_classtypes" /\ i = 0
    /\ declarations' = <<>>
    /\ definitions' = <<>>
    /\ i' = 1
    /\ stages' = Append(stages, Enter("TranslateClasstypes"))
    /\ UNCHANGED <<inst, args, pc, error_messages, heap, records, functions,
                   workunits, outs, proc, calls, held>>

\* translate_classtypes, lines 137-153: one classtype.
translate_classtypes_step ==
    /\ pc = "translate_classtypes" /\ i >= 1 /\ i <= Len(classtypes)
    /\ LET c == classtypes[i]
           definition == Len(heap) + 1
           visited == Append(heap, visit_classtype(Scope(pk_members, pk_import), c))
           copied == deepcopy(visited, definition)
           declaration == copied.ref
       IN /\ heap' = [copied.heap EXCEPT ![declaration].is_definition = FALSE]
          /\ definitions' = Append(definitions, definition)
          /\ declarations' = Append(declarations, declaration)
          /\ calls' = Append(calls, Call("visit_classtype", c.name))
    /\ i' = i + 1
    /\ UNCHANGED <<inst, args, pc, error_messages, records, functions,
                   workunits, outs, proc, stages, held>>

\* translate_classtypes, line 155, and the assignment of line 63.
translate_classtypes_return ==
    /\ pc = "translate_classtypes" /\ i > Len(classtypes)
    /\ records' = classtypes_result(declarations, definitions)
    /\ stages' = Append(stages, Leave("TranslateClasstypes"))
    /\ pc' = After("translate_classtypes")
    /\ i' = 0
    /\ UNCHANGED <<inst, args, error_messages, heap, declarations,
                   definitions, functions, workunits, outs, proc, calls, held>>

\* translate_functions, lines 165-171.
translate_functions_begin ==
    /\ pc = "translate_functions" /\ i = 0
    /\ functions' = <<>>
    /\ i' = 1
    /\ stages' = Append(stages, Enter("TranslateFunctions"))
    /\ UNCHANGED <<inst, args, pc, error_messages, ctvars, workunits, outs,
                   proc, calls, held>>

\* translate_functions, lines 173-174: one helper function.
translate_functions_step ==
    /\ pc = "translate_functions" /\ i >= 1 /\ i <= Len(pk_members.pk_functions)
    /\ LET f == Values(pk_members.pk_functions)[i]
       IN /\ functions' = Append(functions,
                                 visit_function(Scope(pk_members, pk_import), f))
          /\ calls' = Append(calls, Call("visit_function", f.name))
    /\ i' = i + 1
    /\ UNCHANGED <<inst, args, pc, error_messages, ctvars, workunits, outs,
                   proc, stages, held>>

\* translate_functions, line 176.
translate_functions_return ==
    /\ pc = "translate_functions" /\ i > Len(pk_members.pk_functions)
    /\ stages' = Append(stages, Leave("TranslateFunctions"))
    /\ pc' = After("translate_functions")
    /\ i' = 0
    /\ UNCHANGED <<inst, args, error_messages, ctvars, functions, workunits,
                   outs, proc, calls, held>>

\* translate_workunits, lines 186-191.
translate_workunits_begin ==
    /\ pc = "translate_workunits" /\ i = 0
    /\ workunits' = <<>>
    /\ i' = 1
    /\ stages' = Append(stages, Enter("TranslateWorkunits"))
    /\ UNCHANGED <<inst, args, pc, error_messages, ctvars, functions, outs,
                   proc, calls, held>>

\* translate_workunits, lines 193-195: one workunit is translated.
translate_workunits_step ==
    /\ pc = "translate_workunits" /\ i >= 1 /\ i <= Len(pk_members.pk_workunits)
    /\ LET n == pk_members.pk_workunits[i].key
           w == pk_members.pk_workunits[i].val
       IN /\ ~visit_raises(w)
          /\ workunits' = DictSet(workunits, n,
                                  visit_workunit(Scope(pk_members, pk_import), w))
          /\ calls' = Append(calls, Call("visit_workunit", w.name))
    /\ i' = i + 1
    /\ UNCHANGED <<inst, args, pc, error_messages, ctvars, functions, outs,
                   proc, stages, held>>

\* translate_workunits, lines 193-198: the visitor raises.
translate_workunits_fault ==
    /\ pc = "translate_workunits" /\ i >= 1 /\ i <= Len(pk_members.pk_workunits)
    /\ LET w == pk_members.pk_workunits[i].val
           fault == workunit_fault(w)
       IN /\ visit_raises(w)
          /\ calls' = Append(calls, Call("visit_workunit", w.name))
          /\ stdout' = Append(stdout, fault.line)
          /\ exit' = fault.exit
          /\ pc' = fault.pc
    /\ i' = i + 1
    /\ UNCHANGED <<inst, args, error_messages, ctvars, functions, workunits,
                   outs, stages, held>>

\* translate_workunits, line 200.
translate_workunits_return ==
    /\ pc = "translate_workunits" /\ i > Len(pk_members.pk_workunits)
    /\ stages' = Append(stages, Leave("TranslateWorkunits"))
    /\ pc' = After("translate_workunits")
    /\ i' = 0
    /\ UNCHANGED <<inst, args, error_messages, ctvars, functions, workunits,
                   outs, proc, calls, held>>

\* translate, line 69.
assemble_functor ==
    /\ pc = "generate_functor"
    /\ struct' = generate_functor(functor_name(entity), pk_members, workunits,
                                  functions)
    /\ stages' = stages \o <<Enter("AssembleFunctor"), Leave("AssembleFunctor")>>
    /\ calls' = Append(calls, Call("generate_functor", functor_name(entity)))
    /\ pc' = After("generate_functor")
    /\ UNCHANGED <<inst, args, i, error_messages, ctvars, functions,
                   workunits, bindings, result, proc, held>>

\* generate_bindings, lines 247-253, called at line 71.
generate_bindings ==
    /\ pc = "generate_bindings"
    /\ LET binder == binder_for(entity)
       IN /\ bindings' =
                IF binder = "bind_main"
                THEN bind_main(functor_name(entity), pk_members, pk_import,
                               module_file)
                ELSE bind_workunits(functor_name(entity), pk_members, workunits,
                                    module_file)
          /\ calls' = Append(calls, Call(binder, functor_name(entity)))
    /\ stages' = stages \o <<Enter("GenerateBindings"), Leave("GenerateBindings")>>
    /\ pc' = After("generate_bindings")
    /\ UNCHANGED <<inst, args, i, error_messages, ctvars, functions,
                   workunits, struct, result, proc, held>>

\* translate, lines 73-79.
serialize_artifacts ==
    /\ pc = "serialize"
    /\ bindings' = bindings_artifact(generate_header,
                                     generate_includes(functor_file), bindings)
    /\ result' = [returned |-> FALSE,
                  functor |-> functor_artifact(generate_header,
                                  [j \in 1..Len(records) |-> heap[records[j]]],
                                  struct),
                  bindings |-> <<>>]
    /\ stages' = stages \o <<Enter("Serialize"), Leave("Serialize")>>
    /\ pc' = After("serialize")
    /\ UNCHANGED <<inst, args, i, error_messages, ctvars, functions,
                   workunits, struct, proc, calls, held>>

\* translate, line 81.
translate_return ==
    /\ pc = "return"
    /\ result' = [returned |-> TRUE, functor |-> result.functor,
                  bindings |-> bindings]
    /\ pc' = "done"
    /\ UNCHANGED <<inst, args, i, error_messages, ctvars, functions,
                   workunits, struct, bindings, proc, stages, calls, held>>

\* The caller calls translate again on the same instance.
translate_again ==
    /\ pc = "done"
    /\ held' = [pk_members |-> pk_members, pk_import |-> pk_import]
    /\ \E call \in ReuseCalls :
        /\ entity' = call.entity
        /\ classtypes' = call.classtypes
    /\ pc' = "translate"
    /\ i' = 0
    /\ error_messages' = <<>>
    /\ heap' = <<>>
    /\ declarations' = <<>>
    /\ definitions' = <<>>
    /\ records' = <<>>
    /\ functions' = <<>>
    /\ workunits' = <<>>
    /\ struct' = NoStruct
    /\ bindings' = <<>>
    /\ result' = NoResult
    /\ stages' = <<>>
    /\ calls' = <<>>
    /\ UNCHANGED <<inst, proc>>

Next ==
    \/ translate_begin
    \/ link_entity
    \/ link_classtype
    \/ link_done
    \/ extract_members
    \/ check_symbols_begin
    \/ check_symbols_step
    \/ check_symbols_fail
    \/ check_symbols_pass
    \/ translate_classtypes_begin
    \/ translate_classtypes_step
    \/ translate_classtypes_return
    \/ translate_functions_begin
    \/ translate_functions_step
    \/ translate_functions_return
    \/ translate_workunits_begin
    \/ translate_workunits_step
    \/ translate_workunits_fault
    \/ translate_workunits_return
    \/ assemble_functor
    \/ generate_bindings
    \/ serialize_artifacts
    \/ translate_return

NextReuse == Next \/ translate_again

\* One translator, one call of translate.
Spec == Init /\ [][Next]_vars

\* One translator, any number of calls of translate, one after the other.
SpecReuse == InitReuse /\ [][NextReuse]_vars

\* ------------------------------------------------------------ properties

IsPrefix(s, t) == Len(s) <= Len(t) /\ SubSeq(t, 1, Len(s)) = s

RECURSIVE ConcatAll(_)
ConcatAll(ss) == IF ss = <<>> THEN <<>> ELSE Head(ss) \o ConcatAll(Tail(ss))

Names(decls) == [j \in 1..Len(decls) |-> decls[j].name]

\* The arguments of the calls of the collaborators named in fns, in order.
CallsOf(fns) ==
    LET made == SelectSeq(calls, LAMBDA c : c.fn \in fns)
    IN [j \in 1..Len(made) |-> made[j].arg]

\* The stages of spec.md 4.7, in its order.
Pipeline ==
    << "LinkParents", "ExtractMembers", "ValidateSymbols", "TranslateClasstypes",
       "TranslateFunctions", "TranslateWorkunits", "AssembleFunctor",
       "GenerateBindings", "Serialize" >>

PipelineEvents ==
    ConcatAll([j \in 1..Len(Pipeline) |-> <<Enter(Pipeline[j]), Leave(Pipeline[j])>>])

Left(stage) == \E j \in 1..Len(stages) : stages[j] = Leave(stage)

\* The bodies of the running call, as given: drivers, workunits, helper
\* functions, classtypes.
InputBodies ==
    entity.mains \o entity.workunits \o entity.functions
        \o [j \in 1..Len(classtypes) |->
              [name |-> classtypes[j].name, kind |-> classtypes[j].kind]]

\* What the validator answers for each body of the running call, given the
\* tables of this call alone.
InputDiagnostics ==
    LET pass == SymbolsPass(extract(PyKokkosMembers, entity, classtypes),
                            entity.pk_import, entity.path)
    IN [j \in 1..Len(InputBodies) |-> symbols_check(pass, InputBodies[j])]

YieldsDiagnostic == \E j \in 1..Len(InputBodies) : InputDiagnostics[j] # <<>>

TranslationCalls ==
    CallsOf({"visit_classtype", "visit_function", "visit_workunit",
             "generate_functor", "bind_main", "bind_workunits"})

NoArtifact ==
    /\ ~result.returned
    /\ result.functor = <<>>
    /\ result.bindings = <<>>
    /\ pc # "done"

\* C1: the stages of a call of translate are entered and left in the order
\* LinkParents, ExtractMembers, ValidateSymbols, TranslateClasstypes,
\* TranslateFunctions, TranslateWorkunits, AssembleFunctor, GenerateBindings,
\* Serialize: each starts after its predecessor was left, none is entered
\* twice, a call that returns has run all nine, and within LinkParents the
\* entity is linked before any classtype.
C1_StageOrder ==
    /\ IsPrefix(stages, PipelineEvents)
    /\ pc = "done" => stages = PipelineEvents
    /\ (\E j \in 1..Len(classtypes) : classtypes[j].linked) => entity.linked
    /\ Left("LinkParents") =>
          entity.linked /\ \A j \in 1..Len(classtypes) : classtypes[j].linked

C1_Witness ==
    pc = "done" /\ Len(classtypes) = 2 /\ Len(entity.workunits) = 1

\* C2: when the validator has a diagnostic for some body of the call, no
\* visitor, assembler or binder is ever called, nothing is serialized,
\* translate never returns, and the call never gets past ValidateSymbols.
C2_DiagnosticsStopEverything ==
    YieldsDiagnostic =>
        /\ TranslationCalls = <<>>
        /\ NoArtifact
        /\ struct = NoStruct /\ bindings = <<>> /\ records = <<>>
        /\ ~Left("ValidateSymbols")
        /\ pc \in {"translate", "add_parent_refs", "extract", "check_symbols",
                   "exited"}
        /\ pc = "exited" => stages[Len(stages)] = Enter("ValidateSymbols")

C2_Witness ==
    /\ pc = "exited"
    /\ YieldsDiagnostic
    /\ \E j \in 1..Len(classtypes) : classtypes[j].kind = "ghost"
    /\ \A j \in 1..Len(entity.workunits) : entity.workunits[j].kind = "ok"

ValidationOver == Left("ValidateSymbols") \/ stdout # <<>> \/ exit.exited

\* C3: check_symbols calls the validator once on each driver, workunit,
\* helper function and classtype, whatever the earlier bodies yielded; the
\* messages are the concatenation of the results; and nothing is printed,
\* and the process does not exit, before the last body has been checked.
C3_AllBodiesChecked ==
    /\ IsPrefix(CallsOf({"check_symbols"}), Names(InputBodies))
    /\ ValidationOver =>
          /\ CallsOf({"check_symbols"}) = Names(InputBodies)
          /\ error_messages = ConcatAll(InputDiagnostics)
    /\ (exit.exited /\ ~Left("ValidateSymbols")) => stdout = ConcatAll(InputDiagnostics)

C3_Witness ==
    /\ pc = "exited"
    /\ Len(stdout) = 2
    /\ InputDiagnostics[1] # <<>>
    /\ Len(InputBodies) = 3
    /\ InputDiagnostics[3] # <<>>

\* The position of the first workunit the visitor raises on; 0 if none.
FirstFault ==
    LET bad == { j \in 1..Len(entity.workunits) : visit_raises(entity.workunits[j]) }
    IN IF bad = {} THEN 0 ELSE CHOOSE j \in bad : \A k \in bad : j <= k

\* C4: when validation passes and workunit k is the first whose translation
\* raises, the visitor is called on workunits 1..k in order and on no other,
\* one fault naming workunit k is printed, the process exits, and neither
\* the assembler nor a binder is called nor anything returned.
C4_FailFast ==
    (FirstFault > 0 /\ ~YieldsDiagnostic) =>
        /\ IsPrefix(CallsOf({"visit_workunit"}),
                    SubSeq(Names(entity.workunits), 1, FirstFault))
        /\ CallsOf({"generate_functor", "bind_main", "bind_workunits"}) = <<>>
        /\ NoArtifact
        /\ pc \notin {"generate_functor", "generate_bindings", "serialize", "return"}
        /\ pc = "exited" =>
              /\ CallsOf({"visit_workunit"}) =
                    SubSeq(Names(entity.workunits), 1, FirstFault)
              /\ Keys(workunits) = SubSeq(Names(entity.workunits), 1, FirstFault - 1)
              /\ Len(stdout) = 1
              /\ stdout[1].where = entity.workunits[FirstFault].name
        /\ exit.exited => pc = "exited"

C4_Witness ==
    /\ pc = "exited"
    /\ FirstFault = 2
    /\ Len(entity.workunits) = 3
    /\ ~YieldsDiagnostic

\* C5: the functor artifact of a call that returns is the header line, then
\* the forward declarations of the classtypes in input order, then their
\* full definitions in input order, then the fragment of the assembled
\* record, and nothing else.
C5_FunctorArtifact ==
    pc = "done" =>
        LET n == Len(classtypes)
            f == result.functor
        IN /\ result.returned
           /\ Len(f) = 2 * n + 2
           /\ f[1] = generate_header
           /\ \A j \in 1..n :
                 /\ f[1 + j].text = "declaration"
                 /\ f[1 + j].of.name = classtypes[j].name
                 /\ ~f[1 + j].of.is_definition
                 /\ f[1 + n + j].text = "definition"
                 /\ f[1 + n + j].of.name = classtypes[j].name
                 /\ f[1 + n + j].of.is_definition
           /\ f[2 * n + 2].text = "definition"
           /\ f[2 * n + 2].of.name = functor_name(entity)
           /\ f[2 * n + 2].of = struct

C5_Witness ==
    pc = "done" /\ Len(classtypes) = 2 /\ classtypes[1].kind # classtypes[2].kind

\* What the binder of the call's style returns for the call.
BinderFragments ==
    IF entity.style = "workload"
    THEN bind_main(functor_name(entity), pk_members, pk_import, module_file)
    ELSE bind_workunits(functor_name(entity), pk_members, workunits, module_file)

\* C6: the bindings artifact of a call that returns is the header line, then
\* one include block, then the binder's fragments in their order; the block
\* names the pybind11 header, Kokkos_Core, Kokkos_Sort, fstream, iostream,
\* cmath and last the functor file the translator was constructed with.
C6_BindingsArtifact ==
    pc = "done" =>
        LET b == result.bindings
        IN /\ result.returned
           /\ Len(b) = 2 + Len(BinderFragments)
           /\ b[1] = generate_header
           /\ b[2].text = "includes"
           /\ b[2].of = << "pybind11/pybind11.h", "Kokkos_Core.hpp",
                           "Kokkos_Sort.hpp", "fstream", "iostream", "cmath",
                           functor_file >>
           /\ SubSeq(b, 3, Len(b)) = BinderFragments

C6_Witness ==
    /\ pc = "done"
    /\ Len(result.bindings) = 4
    /\ functor_file = "other.hpp"

\* C7 as stated: the forward declaration of every translated classtype is
\* its full definition with the flag flipped and the method bodies omitted,
\* and the full definition is what the visitor returned.
C7_DeclarationOmitsBodies ==
    \A j \in 1..Len(definitions) :
        LET definition == heap[definitions[j]]
            declaration == heap[declarations[j]]
        IN /\ definition = visit_classtype(Scope(pk_members, pk_import), classtypes[j])
           /\ declaration =
                 WithoutBodies([definition EXCEPT !.is_definition = ~definition.is_definition])

\* C7, amended: the forward declaration of every translated classtype is a
\* separate object that equals its full definition but for the definition
\* flag, which is false; the method bodies are still in it; the full
\* definition is what the visitor returned, flag and contents.
C7_DeclarationIsFlaggedCopy ==
    \A j \in 1..Len(definitions) :
        LET definition == heap[definitions[j]]
            declaration == heap[declarations[j]]
        IN /\ declarations[j] # definitions[j]
           /\ definition = visit_classtype(Scope(pk_members, pk_import), classtypes[j])
           /\ declaration = [definition EXCEPT !.is_definition = FALSE]
           /\ declaration.methods = definition.methods

C7_Witness ==
    /\ Len(definitions) = 2
    /\ heap[definitions[1]].methods # <<>>
    /\ heap[declarations[1]].methods[1].body = "method"

BinderCalls == SelectSeq(calls, LAMBDA c : c.fn \in {"bind_main", "bind_workunits"})

\* C8: a call of translate calls at most one binder, and one that got past
\* binding generation called exactly one: bind_main, which yields a single
\* entry, when the entity's style is workload, and otherwise bind_workunits,
\* which is given every translated workunit and yields an entry for each.
C8_OneBinder ==
    /\ Len(BinderCalls) <= 1
    /\ \A j \in 1..Len(BinderCalls) :
          BinderCalls[j].fn = "bind_main" <=> entity.style = "workload"
    /\ pc \in {"serialize", "return", "done"} => Len(BinderCalls) = 1
    /\ pc = "done" =>
          LET entries == SubSeq(result.bindings, 3, Len(result.bindings))
          IN IF entity.style = "workload"
             THEN Len(entries) = 1 /\ entries[1].binder = "bind_main"
             ELSE /\ Keys(workunits) = Names(entity.workunits)
                  /\ Len(entries) = Len(entity.workunits)
                  /\ \A j \in 1..Len(entries) :
                        /\ entries[j].binder = "bind_workunits"
                        /\ entries[j].entry = entity.workunits[j].name

C8_Witness ==
    pc = "done" /\ entity.style = "workload" /\ Len(entity.workunits) = 2

\* What a translator that never ran before makes of the running call.
FreshMembers == extract(PyKokkosMembers, entity, classtypes)

FreshScope == Scope(FreshMembers, entity.pk_import)

FreshReturns == ~YieldsDiagnostic /\ FirstFault = 0

FreshWorkunits ==
    [j \in 1..Len(entity.workunits) |->
        [key |-> entity.workunits[j].name,
         val |-> visit_workunit(FreshScope, entity.workunits[j])]]

FreshFunctor ==
    LET defs == [j \in 1..Len(classtypes) |-> visit_classtype(FreshScope, classtypes[j])]
        decls == [j \in 1..Len(classtypes) |-> [defs[j] EXCEPT !.is_definition = FALSE]]
        fns == [j \in 1..Len(entity.functions) |->
                   visit_function(FreshScope, entity.functions[j])]
    IN <<generate_header>>
         \o [j \in 1..Len(classtypes) |-> serialize(decls[j])]
         \o [j \in 1..Len(classtypes) |-> serialize(defs[j])]
         \o <<serialize(generate_functor(functor_name(entity), FreshMembers,
                                         FreshWorkunits, fns))>>

FreshBindings ==
    <<generate_header, generate_includes(functor_file)>>
        \o (IF entity.style = "workload"
            THEN bind_main(functor_name(entity), FreshMembers, entity.pk_import,
                           module_file)
            ELSE bind_workunits(functor_name(entity), FreshMembers, FreshWorkunits,
                                module_file))

\* C9: whatever an instance holds from its earlier calls, a call of
\* translate uses the tables and the alias of its own entity and classtypes
\* alone, returns exactly when a new instance would, and returns the two
\* artifacts a new instance would.
C9_NoStateAcrossCalls ==
    /\ Left("ExtractMembers") => pk_members = FreshMembers
    /\ pc # "translate" => pk_import = entity.pk_import
    /\ pc = "done" =>
          /\ FreshReturns
          /\ result = [returned |-> TRUE, functor |-> FreshFunctor,
                       bindings |-> FreshBindings]
    /\ pc = "exited" => ~FreshReturns

C9_Witness ==
    /\ pc = "done"
    /\ held.pk_members.bound
    /\ held.pk_members.pk_functions # <<>>
    /\ entity.functions = <<>>
    /\ held.pk_import # entity.pk_import

====
